---------------------------- MODULE Spec2Model ----------------------------
(***************************************************************************)
(* The anomaly endpoint of the gordo model server:                         *)
(* gordo_components/server/views/anomaly.py, AnomalyView.post / .get and   *)
(* AnomalyView._create_anomaly_response.                                   *)
(*                                                                         *)
(* Several requests are in flight at once, each with its own flask request *)
(* context g (g.X, g.y set by the utils.extract_X_y decorator) and its own *)
(* position in the handler.  The view's tags and frequency and the served  *)
(* model (current_app.model) are shared by all requests.                   *)
(*                                                                         *)
(* Times are counted in ticks of 1/10000 s, the resolution of the ".4f"    *)
(* format of "time-seconds".  Numeric cell values are integers.            *)
(***************************************************************************)
EXTENDS Integers, Sequences, FiniteSets, TLC

(* ----------------------------- bounds ---------------------------------- *)

\* number of requests in flight at once
NumRequests == 2

\* largest number of rows of the table the model's anomaly() returns
MaxRows == 2

Requests == 1..NumRequests

(* ------------------------ the shared configuration --------------------- *)

\* names a tag (a sensor) can have
TagNames == {"tag-0", "tag-1", "tag-5"}

\* self.tags of the view, as the list of names [t.name for t in self.tags]
TagLists == { <<"tag-0", "tag-1">>, <<"tag-1">> }

\* self.frequency of the view
Frequencies == {"10T", "1H"}

\* current_app.model: its type, and whether it has an anomaly() method
Models ==
    { [type |-> "StandardScaler", hasAnomaly |-> FALSE],
      [type |-> "DiffBasedAnomalyDetector", hasAnomaly |-> TRUE] }

(* ------------------------------ data ----------------------------------- *)

Range(s) == { s[i] : i \in DOMAIN s }

\* Python's None for g.y, in the shape of a frame so that values compare
None == [isNone |-> TRUE, columns |-> {}, nrows |-> 0]

\* a pandas DataFrame of X or y: its column names and its number of rows
Frame(cols, n) == [isNone |-> FALSE, columns |-> cols, nrows |-> n]

\* the multi-level columns of the table anomaly() returns: (top level, tag)
AnomalyColumns ==
    << <<"start", "">>, <<"end", "">>, <<"total-anomaly", "">>,
       <<"tag-anomaly", "tag-0">>, <<"tag-anomaly", "tag-1">> >>

\* the rows an anomaly table is made of (one value per column)
AnomalyRows == { <<1, 2, 133, 91, 35>>, <<2, 3, 20, 12, 16>> }

SeqsUpTo(S, n) == UNION { [1..k -> S] : k \in 0..n }

\* the tables anomaly() can return: any rows in any order, repeats included
AnomalyFrames ==
    { [columns |-> AnomalyColumns, rows |-> rs] : rs \in SeqsUpTo(AnomalyRows, MaxRows) }

EmptyFrame == [columns |-> <<>>, rows |-> <<>>]

\* timeit.default_timer() - start_time, in ticks
ElapsedTicks == {1937, 12345}

TicksPerSecond == 10000


(* ------------------------- the state --------------------------------- *)

VARIABLES
    tags,        \* self.tags of the view, as names
    frequency,   \* self.frequency of the view
    model,       \* current_app.model
    pc,          \* where each request is in post/get/_create_anomaly_response
    request,     \* what each request carried: method, X, y
    g,           \* flask's request context of each request: g.X, g.y
    calls,       \* the calls each request made to current_app.model.anomaly
    anomaly_df,  \* the outcome of the request's model call
    response     \* the response each request got

vars == <<tags, frequency, model, pc, request, g, calls, anomaly_df, response>>

shared == <<tags, frequency, model>>

NoRequest == [method |-> "none", X |-> None, y |-> None]

NoContext == [X |-> None, y |-> None]

\* no call made yet, or the outcome of the call
NoOutcome == [kind |-> "none", origin |-> "none", df |-> EmptyFrame]

NoResponse == [kind |-> "none", status |-> 0, body |-> <<>>]

(* ----------------------- pieces of the handler ------------------------ *)

\* the X frames a request can carry; the extract_X_y decorator gives X the
\* view's tag names as columns
XFrames(names) == { Frame(Range(names), n) : n \in 1..MaxRows }

\* the y a request can carry: none, or a frame over any columns
YFrames(X) == {None} \cup { Frame(cols, X.nrows) : cols \in SUBSET TagNames }

\* every request a client can send to a view with these tag names
Inputs(names) ==
    { [method |-> m, X |-> X, y |-> y] :
        m \in {"GET", "POST"}, X \in XFrames(names), y \in UNION { YFrames(F) : F \in XFrames(names) } }

\* requests of each kind for the runs with several requests in flight: no y,
\* a y sharing no column with X, a y that overlaps X in part, a y inside X
SomeInputs(names) ==
    { [method |-> "POST", X |-> Frame(Range(names), 1), y |-> None],
      [method |-> "GET", X |-> Frame(Range(names), 2), y |-> Frame({"tag-5"}, 2)],
      [method |-> "POST", X |-> Frame(Range(names), 1), y |-> Frame({"tag-1", "tag-5"}, 1)],
      [method |-> "GET", X |-> Frame(Range(names), 2), y |-> Frame({"tag-1"}, 2)] }

\* g kept in one place for every request instead of per request
G_shared(r) == g[CHOOSE q \in Requests : \A p \in Requests : q <= p]

\* flask.g of request r is local to the request
G(r) == g[r]

\* the check for a missing y left out
YIsNone_skipped(y) == FALSE

\* g.y is None
YIsNone(y) == y.isNone

\* y only has to have some column, whether a tag or not
AnyTagInY_any_column(names, y) == y.columns # {}

\* all() in place of any(): every tag has to be a column of y
AnyTagInY_all(names, y) == \A i \in DOMAIN names : names[i] \in y.columns

\* any(col in g.y.columns for col in [t.name for t in self.tags])
RECURSIVE AnyTagInY(_, _)
AnyTagInY(names, y) ==
    IF names = <<>> THEN FALSE
    ELSE IF Head(names) \in y.columns THEN TRUE
    ELSE AnyTagInY(Tail(names), y)

\* the status left out of make_response: flask answers 200
MissingYResponse_default_status ==
    [kind |-> "response", status |-> 200,
     body |-> [message |-> <<"Cannot perform anomaly without 'y' to compare against.">>]]

\* make_response((jsonify(message), 400)) of the missing-y branch
MissingYResponse ==
    [kind |-> "response", status |-> 400,
     body |-> [message |-> <<"Cannot perform anomaly without 'y' to compare against.">>]]

\* make_response(jsonify(message), 400) of the not-a-subset branch
NotSubsetResponse ==
    [kind |-> "response", status |-> 400,
     body |-> [message |-> <<"y is not a subset of X, cannot do anomaly detection">>]]

\* type(current_app.model) as the f-string renders it
TypeName(m) == m.type

\* the message without the model's type
NotAnomalyDetectorResponse_no_type(m) ==
    [kind |-> "response", status |-> 422,
     body |-> [message |-> <<"Model is not an AnomalyDetector">>]]

\* make_response(jsonify(msg), 422): the f-string as its literal and its field
NotAnomalyDetectorResponse(m) ==
    [kind |-> "response", status |-> 422,
     body |-> [message |-> <<"Model is not an AnomalyDetector, it is of type: ", TypeName(m)>>]]

\* what evaluating current_app.model.anomaly(X, y, frequency=...) can do:
\* the attribute lookup raises AttributeError when the model has no anomaly;
\* otherwise the computation returns a table, or raises an AttributeError of
\* its own, or raises any other exception
ModelOutcomes(m) ==
    IF ~m.hasAnomaly
    THEN { [kind |-> "AttributeError", origin |-> "lookup", df |-> EmptyFrame] }
    ELSE { [kind |-> "returned", origin |-> "anomaly", df |-> d] : d \in AnomalyFrames }
         \cup { [kind |-> "AttributeError", origin |-> "anomaly", df |-> EmptyFrame],
                [kind |-> "Exception", origin |-> "anomaly", df |-> EmptyFrame] }

\* the except clause: "except AttributeError"
CaughtByHandler(outcome) == outcome.kind = "AttributeError"

(* ---------------- utils.multi_lvl_column_dataframe_to_dict ------------- *)

\* the top-level names of multi-level columns
TopLevels(cols) == { cols[i][1] : i \in DOMAIN cols }

\* the second-level labels under a top-level name
SubLabels(cols, f) == { cols[i][2] : i \in { j \in DOMAIN cols : cols[j][1] = f } }

\* a field is per-tag when its columns carry tag names on the second level
IsPerTag(cols, f) == SubLabels(cols, f) # {""}

ColumnIndex(cols, f, sub) == CHOOSE i \in DOMAIN cols : cols[i] = <<f, sub>>

\* one row as a nested record: a per-tag field is a mapping from tag to value,
\* any other field is its value wrapped in a list
NestedRecord(cols, row) ==
    [f \in TopLevels(cols) |->
        IF IsPerTag(cols, f)
        THEN [t \in SubLabels(cols, f) |-> row[ColumnIndex(cols, f, t)]]
        ELSE <<row[ColumnIndex(cols, f, "")]>>]

\* one nested record per row of the table, in the table's row order
multi_lvl_column_dataframe_to_dict(df) ==
    [i \in 1..Len(df.rows) |-> NestedRecord(df.columns, df.rows[i])]

(* ------------------------ response assembly --------------------------- *)

Digit(d) == <<"0", "1", "2", "3", "4", "5", "6", "7", "8", "9">>[d + 1]

RECURSIVE IntToStr(_)
IntToStr(n) == IF n < 10 THEN <<Digit(n)>> ELSE Append(IntToStr(n \div 10), Digit(n % 10))

\* f"{elapsed:.4f}" of an elapsed time given in ticks, as a list of characters
Format4f(ticks) ==
    IntToStr(ticks \div TicksPerSecond) \o <<".">> \o
    << Digit((ticks \div 1000) % 10), Digit((ticks \div 100) % 10),
       Digit((ticks \div 10) % 10), Digit(ticks % 10) >>

\* a Python dict is a function from its keys; dict() is the empty one
EmptyDict == <<>>

\* d[k] = v
SetItem(d, k, v) == [x \in (DOMAIN d) \cup {k} |-> IF x = k THEN v ELSE d[x]]

\* the value d.pop(k, default) returns
PopValue(d, k, default) == IF k \in DOMAIN d THEN d[k] ELSE default

\* jsonify(d): the JSON object with d's keys and values
Jsonify(d) == [k \in DOMAIN d |-> d[k]]

\* the context also given a "status-code" entry
Context_with_status_code(df, elapsed) ==
    SetItem(SetItem(SetItem(EmptyDict, "data", multi_lvl_column_dataframe_to_dict(df)),
                    "time-seconds", Format4f(elapsed)),
            "status-code", 200)

\* the table turned upside down before it is transformed
Context_reversed(df, elapsed) ==
    SetItem(SetItem(EmptyDict, "data",
                    multi_lvl_column_dataframe_to_dict(
                        [df EXCEPT !.rows = [i \in 1..Len(df.rows) |-> df.rows[Len(df.rows) + 1 - i]]])),
            "time-seconds", Format4f(elapsed))

\* context = dict(); context["data"] = ...; context["time-seconds"] = ...
Context(df, elapsed) ==
    SetItem(SetItem(EmptyDict, "data",
                    multi_lvl_column_dataframe_to_dict(df)),
            "time-seconds", Format4f(elapsed))

\* a table without rows answered as an error
SuccessResponse_empty_is_error(context) ==
    IF context["data"] = <<>>
    THEN [kind |-> "response", status |-> 400, body |-> [message |-> <<"no data">>]]
    ELSE [kind |-> "response", status |-> 200, body |-> Jsonify(context)]

\* make_response(jsonify(context), context.pop("status-code", 200)):
\* the arguments are evaluated left to right, the body before the pop
SuccessResponse(context) ==
    [kind |-> "response",
     status |-> PopValue(context, "status-code", 200),
     body |-> Jsonify(context)]

(* ----------------------------- actions -------------------------------- *)

Init ==
    /\ tags \in TagLists
    /\ frequency \in Frequencies
    /\ model \in Models
    /\ pc = [r \in Requests |-> "idle"]
    /\ request = [r \in Requests |-> NoRequest]
    /\ g = [r \in Requests |-> NoContext]
    /\ calls = [r \in Requests |-> <<>>]
    /\ anomaly_df = [r \in Requests |-> NoOutcome]
    /\ response = [r \in Requests |-> NoResponse]

\* a request arrives: the extract_X_y decorator puts X and y into g, the
\* method takes start_time and enters _create_anomaly_response
Enter(r, input) ==
    /\ pc[r] = "idle"
    /\ request' = [request EXCEPT ![r] = input]
    /\ g' = [g EXCEPT ![r] = [X |-> input.X, y |-> input.y]]
    /\ pc' = [pc EXCEPT ![r] = "check_y"]
    /\ UNCHANGED <<shared, calls, anomaly_df, response>>

\* the server handles this request with no other request in flight
Alone(r) == \A q \in Requests \ {r} : pc[q] = "idle"

post(r) ==
    /\ Alone(r)
    /\ \E input \in Inputs(tags) : input.method = "POST" /\ Enter(r, input)

get(r) ==
    /\ Alone(r)
    /\ \E input \in Inputs(tags) : input.method = "GET" /\ Enter(r, input)

\* if g.y is None: return 400
CheckY(r) ==
    /\ pc[r] = "check_y"
    /\ IF YIsNone(G(r).y)
       THEN /\ response' = [response EXCEPT ![r] = MissingYResponse]
            /\ pc' = [pc EXCEPT ![r] = "done"]
       ELSE /\ pc' = [pc EXCEPT ![r] = "check_columns"]
            /\ UNCHANGED response
    /\ UNCHANGED <<shared, request, g, calls, anomaly_df>>

\* if not any(col in g.y.columns for col in tag names): return 400
CheckColumns(r) ==
    /\ pc[r] = "check_columns"
    /\ IF ~AnyTagInY(tags, G(r).y)
       THEN /\ response' = [response EXCEPT ![r] = NotSubsetResponse]
            /\ pc' = [pc EXCEPT ![r] = "done"]
       ELSE /\ pc' = [pc EXCEPT ![r] = "call_model"]
            /\ UNCHANGED response
    /\ UNCHANGED <<shared, request, g, calls, anomaly_df>>

\* the arguments of current_app.model.anomaly(g.X, g.y, frequency=self.frequency)
CallArguments(r) == [X |-> G(r).X, y |-> G(r).y, frequency |-> frequency]

\* try: anomaly_df = current_app.model.anomaly(...)
\* except AttributeError: return 422
\* any other exception leaves the handler
CallModel(r) ==
    /\ pc[r] = "call_model"
    /\ calls' = [calls EXCEPT ![r] = Append(@, CallArguments(r))]
    /\ \E outcome \in ModelOutcomes(model) :
          /\ anomaly_df' = [anomaly_df EXCEPT ![r] = outcome]
          /\ IF CaughtByHandler(outcome)
             THEN /\ response' = [response EXCEPT ![r] = NotAnomalyDetectorResponse(model)]
                  /\ pc' = [pc EXCEPT ![r] = "done"]
             ELSE IF outcome.kind = "returned"
             THEN /\ pc' = [pc EXCEPT ![r] = "assemble"]
                  /\ UNCHANGED response
             ELSE /\ pc' = [pc EXCEPT ![r] = "raised"]
                  /\ UNCHANGED response
    /\ UNCHANGED <<shared, request, g>>

\* build the context, time the request, return 200.  post and get always
\* pass their own start_time, so elapsed is the time since the method began:
\* some non-negative number of ticks
Assemble(r) ==
    /\ pc[r] = "assemble"
    /\ \E elapsed \in ElapsedTicks :
          response' = [response EXCEPT ![r] =
                          SuccessResponse(Context(anomaly_df[r].df, elapsed))]
    /\ pc' = [pc EXCEPT ![r] = "done"]
    /\ UNCHANGED <<shared, request, g, calls, anomaly_df>>

Next ==
    \E r \in Requests :
        \/ post(r)
        \/ get(r)
        \/ CheckY(r)
        \/ CheckColumns(r)
        \/ CallModel(r)
        \/ Assemble(r)

\* one request handled at a time
Spec == Init /\ [][Next]_vars

(* -------------- several requests in flight at the same time ------------ *)

ConcurrentInit ==
    /\ Init
    /\ tags = <<"tag-0", "tag-1">>
    /\ frequency = "10T"

\* a POST arrives while other requests may be in the handler
concurrent_post(r) ==
    \E input \in SomeInputs(tags) : input.method = "POST" /\ Enter(r, input)

\* a GET arrives while other requests may be in the handler
concurrent_get(r) ==
    \E input \in SomeInputs(tags) : input.method = "GET" /\ Enter(r, input)

ConcurrentNext ==
    \E r \in Requests :
        \/ concurrent_post(r)
        \/ concurrent_get(r)
        \/ CheckY(r)
        \/ CheckColumns(r)
        \/ CallModel(r)
        \/ Assemble(r)

ConcurrentSpec == ConcurrentInit /\ [][ConcurrentNext]_vars

(* ------------------------------ claims -------------------------------- *)

\* the request has left the handler with a response
Responded(r) == pc[r] = "done" /\ response[r].kind = "response"

\* the names of X's columns that are also columns of y
SharedColumns(r) == request[r].y.columns \cap request[r].X.columns

\* the request's y is present and shares a column name with X
TargetAccepted(r) == ~request[r].y.isNone /\ SharedColumns(r) # {}

\* the handler is past the y-is-None check
PastCheckY(r) == pc[r] \in {"check_columns", "call_model", "assemble", "done", "raised"}

\* the handler is past both checks of y
PastChecks(r) == pc[r] \in {"call_model", "assemble", "done", "raised"}

\* the handler is past the model call
PastCall(r) == pc[r] \in {"assemble", "done", "raised"}

\* C1: a request without y, once past the first check, has been answered
\* with status 400 and the missing-y message, and the model's anomaly
\* operation was not called for it.
C1_MissingTarget ==
    \A r \in Requests :
        (request[r].y.isNone /\ PastCheckY(r)) =>
            /\ Responded(r)
            /\ response[r].status = 400
            /\ response[r].body =
                  [message |-> <<"Cannot perform anomaly without 'y' to compare against.">>]
            /\ calls[r] = <<>>

C1_Witness ==
    \E r \in Requests :
        /\ request[r].method \in {"GET", "POST"}
        /\ request[r].y.isNone
        /\ Responded(r)

\* C2: a request whose y is present but shares no column name with X, once
\* past the second check, has been answered with status 400 and the
\* not-a-subset message, and the model's anomaly operation was not called.
C2_DisjointTarget ==
    \A r \in Requests :
        (~request[r].y.isNone /\ SharedColumns(r) = {} /\ PastChecks(r)) =>
            /\ Responded(r)
            /\ response[r].status = 400
            /\ response[r].body =
                  [message |-> <<"y is not a subset of X, cannot do anomaly detection">>]
            /\ calls[r] = <<>>

C2_Witness ==
    \E r \in Requests :
        /\ request[r].y.columns = {"tag-5"}
        /\ request[r].X.columns = {"tag-0", "tag-1"}
        /\ ~request[r].y.isNone
        /\ Responded(r)

\* C3: a request whose y passes both checks, served by a model without the
\* anomaly capability, is answered with status 422, a message that contains
\* the model's type name, and no data.
C3_UnsupportedModel ==
    \A r \in Requests :
        (TargetAccepted(r) /\ ~model.hasAnomaly /\ PastCall(r)) =>
            /\ Responded(r)
            /\ response[r].status = 422
            /\ DOMAIN response[r].body = {"message"}
            /\ model.type \in Range(response[r].body.message)

C3_Witness ==
    \E r \in Requests :
        /\ TargetAccepted(r)
        /\ model.type = "StandardScaler"
        /\ ~model.hasAnomaly
        /\ Responded(r)

\* C4: when the computation of a model that has the anomaly operation fails,
\* with whatever error, the handler gives no response (neither 422 nor 200)
\* and the error leaves the handler.
C4_OnlyCapabilityAbsenceCaught ==
    \A r \in Requests :
        (anomaly_df[r].origin = "anomaly"
            /\ anomaly_df[r].kind \in {"AttributeError", "Exception"}) =>
            /\ pc[r] = "raised"
            /\ response[r] = NoResponse

C6_RowsInOrder ==
    \A r \in Requests :
        (anomaly_df[r].kind = "returned" /\ pc[r] = "done") =>
            LET rows == anomaly_df[r].df.rows
                data == response[r].body.data
            IN  /\ Len(data) = Len(rows)
                /\ \A i \in 1..Len(rows) :
                      /\ data[i]["start"] = <<rows[i][1]>>
                      /\ data[i]["end"] = <<rows[i][2]>>
                      /\ data[i]["total-anomaly"] = <<rows[i][3]>>
                      /\ data[i]["tag-anomaly"]["tag-0"] = rows[i][4]
                      /\ data[i]["tag-anomaly"]["tag-1"] = rows[i][5]

\* a full table whose first rows are out of chronological order
C6_Witness ==
    /\ \E r \in Requests :
          /\ Responded(r)
          /\ Len(anomaly_df[r].df.rows) = MaxRows
          /\ anomaly_df[r].df.rows[1][1] > anomaly_df[r].df.rows[2][1]
          /\ Len(response[r].body.data) = MaxRows

\* C7: a returned table with zero rows is answered with status 200, an empty
\* data sequence, and time-seconds.
C7_EmptyTable ==
    \A r \in Requests :
        (anomaly_df[r].kind = "returned" /\ anomaly_df[r].df.rows = <<>> /\ pc[r] = "done") =>
            /\ response[r].status = 200
            /\ response[r].body.data = <<>>
            /\ "time-seconds" \in DOMAIN response[r].body

C7_Witness ==
    \E r \in Requests :
        /\ anomaly_df[r].kind = "returned"
        /\ anomaly_df[r].df.rows = <<>>
        /\ Responded(r)
        /\ response[r].status = 200

\* C8: the checks come first and in order, and the model's anomaly operation
\* is called if and only if y is present and shares a column name with the
\* tags; it is then called once, with the request's X and y and the view's
\* frequency.  (A call is the evaluation of current_app.model.anomaly(...),
\* also when the model turns out not to have the operation.)
C8_CallIffTargetAccepted ==
    \A r \in Requests :
        /\ pc[r] \in {"idle", "check_y", "check_columns", "call_model"} => calls[r] = <<>>
        /\ pc[r] = "check_columns" => ~request[r].y.isNone
        /\ pc[r] = "call_model" => TargetAccepted(r)
        /\ pc[r] \in {"assemble", "done", "raised"} =>
              (calls[r] # <<>> <=> TargetAccepted(r))
        /\ calls[r] # <<>> =>
              /\ Len(calls[r]) = 1
              /\ calls[r][1] = [X |-> request[r].X, y |-> request[r].y,
                                frequency |-> frequency]

\* a y that overlaps the tags only in part, with a column of its own, is
\* accepted and the model is called
C8_Witness ==
    \E r \in Requests :
        /\ request[r].y.columns = {"tag-1", "tag-5"}
        /\ Range(tags) = {"tag-0", "tag-1"}
        /\ Len(calls[r]) = 1
        /\ pc[r] = "done"

\* C9: every response is either a success (200, with data and time-seconds,
\* no message) or an error (400 or 422, with a message only).
C9_TwoShapes ==
    \A r \in Requests :
        /\ pc[r] = "done" <=> response[r].kind = "response"
        /\ response[r].kind = "response" =>
              \/ /\ response[r].status = 200
                 /\ DOMAIN response[r].body = {"data", "time-seconds"}
              \/ /\ response[r].status \in {400, 422}
                 /\ DOMAIN response[r].body = {"message"}

C9_Witness ==
    \E r \in Requests :
        /\ Responded(r)
        /\ response[r].status = 400
        /\ ~request[r].y.isNone

\* the status a request gets when it is handled with no other request in
\* flight, given what the model did in its call (0: no response)
StatusAlone(input, outcome) ==
    IF input.y.isNone THEN 400
    ELSE IF input.y.columns \cap input.X.columns = {} THEN 400
    ELSE IF outcome.kind = "AttributeError" THEN 422
    ELSE IF outcome.kind = "returned" THEN 200
    ELSE 0

\* the handler leaves the view's tags and frequency and the model alone
SharedUntouched == [][shared' = shared]_vars

\* each finished request got what it gets when handled alone
RequestIsolated ==
    \A r \in Requests :
        /\ calls[r] # <<>> =>
              /\ calls[r][1].X = request[r].X
              /\ calls[r][1].y = request[r].y
              /\ anomaly_df[r] \in ModelOutcomes(model)
        /\ pc[r] \in {"done", "raised"} =>
              /\ response[r].status = StatusAlone(request[r], anomaly_df[r])
              /\ (calls[r] = <<>>) = (StatusAlone(request[r], anomaly_df[r]) = 400)
              /\ response[r].status = 200 =>
                    response[r].body.data =
                        multi_lvl_column_dataframe_to_dict(anomaly_df[r].df)

\* C10: with several requests in flight against the same model, in any
\* interleaving, no step changes the shared tags, frequency or model, and
\* each request's status and data are those of the request handled alone.
C10_NoInterference == []RequestIsolated /\ SharedUntouched

\* two requests with different y are inside the handler at the same time,
\* one of them past its model call
C10_Witness ==
    \E r \in Requests : \E q \in Requests \ {r} :
        /\ pc[r] = "assemble"
        /\ pc[q] \in {"check_y", "check_columns", "call_model"}
        /\ request[r].y # request[q].y
        /\ request[r].X # request[q].X

====
